---- MODULE Spec2Model ----
(***************************************************************************)
(* Model of lib/nvim-rs/src/rpc/reader.rs: RpcReader, the receive side of  *)
(* the msgpack-rpc transport.  Bytes come from an asynchronous source in   *)
(* chunks, are accumulated in a VecDeque and decoded through a             *)
(* non-destructive Cursor; recv returns one message per call.              *)
(***************************************************************************)
EXTENDS Integers, Sequences, FiniteSets, TLC

\* ---------------------------------------------------------------- bounds
MaxMsgs == 2
MaxCalls == 3
MaxErrs == 1
MaxCancels == 1
MaxSlice == 2
MaxRead == 3

\* ------------------------------------------------------- sequence helpers
Min(a, b) == IF a < b THEN a ELSE b

RECURSIVE Flatten(_)
Flatten(ss) == IF ss = <<>> THEN <<>> ELSE Head(ss) \o Flatten(Tail(ss))

IsPrefix(p, s) == Len(p) <= Len(s) /\ SubSeq(s, 1, Len(p)) = p

SeqsUpTo(S, n) == UNION {[1..k -> S] : k \in 0..n}

\* --------------------------------------------------- MessagePack subset
\* Marker bytes of the wire format that the model uses.
FixArray0 == 144
NilMarker == 192
ReservedMarker == 193
U8Marker == 204

IntVal(n) == [t |-> "int", n |-> n, elems |-> <<>>]
NilVal == [t |-> "nil", n |-> 0, elems |-> <<>>]
ArrVal(es) == [t |-> "arr", n |-> 0, elems |-> es]
NoVal == [t |-> "none", n |-> 0, elems |-> <<>>]

RECURSIVE Encode(_)
RECURSIVE EncodeAll(_)
Encode(v) ==
    IF v.t = "int"
    THEN IF v.n <= 127 THEN <<v.n>> ELSE <<U8Marker, v.n>>
    ELSE IF v.t = "nil"
    THEN <<NilMarker>>
    ELSE <<FixArray0 + Len(v.elems)>> \o EncodeAll(v.elems)
EncodeAll(vs) == IF vs = <<>> THEN <<>> ELSE Encode(Head(vs)) \o EncodeAll(Tail(vs))

\* ------------------------------------------------------------- Cursor
\* A read that advances the position by the requested length.
CursorReadOvershoot(front, back, pos, n) ==
    LET start == Min(pos, Len(front) + Len(back))
        avail == Len(front) + Len(back) - start
        k == Min(avail, n)
    IN [bytes |-> SubSeq(front \o back, start + 1, start + k), n |-> k,
        pos |-> pos + n]

\* A read that copies from the front slice only.
CursorReadFrontOnly(front, back, pos, n) ==
    LET start == Min(pos, Len(front) + Len(back))
        n1 == IF start < Len(front) THEN Min(Len(front) - start, n) ELSE 0
    IN [bytes |-> SubSeq(front, start + 1, start + n1), n |-> n1, pos |-> pos + n1]

\* Cursor::read: copy up to n bytes starting at pos out of the two slices
\* of the deque; returns the bytes copied, their count and the new pos.
CursorRead(front, back, pos, n) ==
    LET start == Min(pos, Len(front) + Len(back))
        n1 == IF start < Len(front) THEN Min(Len(front) - start, n) ELSE 0
        out1 == SubSeq(front, start + 1, start + n1)
        b_start == start + n1 - Len(front)
        n2 == IF n1 < n /\ start + n1 >= Len(front) /\ b_start < Len(back)
              THEN Min(Len(back) - b_start, n - n1)
              ELSE 0
        out2 == SubSeq(back, b_start + 1, b_start + n2)
    IN [bytes |-> out1 \o out2, n |-> n1 + n2, pos |-> pos + n1 + n2]

\* io::Read::read_exact over the cursor: read until n bytes were copied or
\* a read returns 0, which is UnexpectedEof.
RECURSIVE ReadExact(_, _, _, _)
ReadExact(front, back, pos, n) ==
    IF n = 0
    THEN [ok |-> TRUE, bytes |-> <<>>, pos |-> pos]
    ELSE LET r == CursorRead(front, back, pos, n)
         IN IF r.n = 0
            THEN [ok |-> FALSE, bytes |-> <<>>, pos |-> r.pos]
            ELSE LET rest == ReadExact(front, back, r.pos, n - r.n)
                 IN [ok |-> rest.ok, bytes |-> r.bytes \o rest.bytes, pos |-> rest.pos]

\* ------------------------------------------------------------ decoder
DecOk(v, pos) == [kind |-> "Ok", io |-> "none", val |-> v, pos |-> pos]
DecErr(kind, io, pos) == [kind |-> kind, io |-> io, val |-> NoVal, pos |-> pos]

\* rmp_serde::from_read::<_, Message>: decode one value through the cursor.
\* The marker byte is read once (DecodeValue), then the value is decoded
\* according to it (DecodeMarked); the elements of an array are decoded one
\* after the other (DecodeElems), each decoded once (DecodeNext).
RECURSIVE DecodeValue(_, _, _)
RECURSIVE DecodeMarked(_, _, _)
RECURSIVE DecodeElems(_, _, _, _, _)
RECURSIVE DecodeNext(_, _, _, _, _)
DecodeMarked(front, back, m) ==
    IF ~m.ok
    THEN DecErr("InvalidMarkerRead", "UnexpectedEof", m.pos)
    ELSE LET b == m.bytes[1]
         IN IF b <= 127
            THEN DecOk(IntVal(b), m.pos)
            ELSE IF b >= FixArray0 /\ b <= FixArray0 + 15
            THEN DecodeElems(front, back, m.pos, b - FixArray0, <<>>)
            ELSE IF b = NilMarker
            THEN DecOk(NilVal, m.pos)
            ELSE IF b = U8Marker
            THEN LET d == ReadExact(front, back, m.pos, 1)
                 IN IF d.ok
                    THEN DecOk(IntVal(d.bytes[1]), d.pos)
                    ELSE DecErr("InvalidDataRead", "UnexpectedEof", d.pos)
            ELSE DecErr("TypeMismatch", "none", m.pos)
DecodeValue(front, back, pos) ==
    CHOOSE d \in {DecodeMarked(front, back, m) :
                    m \in {ReadExact(front, back, pos, 1)}} : TRUE
DecodeNext(front, back, e, n, acc) ==
    IF e.kind = "Ok"
    THEN DecodeElems(front, back, e.pos, n - 1, Append(acc, e.val))
    ELSE e
DecodeElems(front, back, pos, n, acc) ==
    IF n = 0
    THEN DecOk(ArrVal(acc), pos)
    ELSE CHOOSE d \in {DecodeNext(front, back, e, n, acc) :
                         e \in {DecodeValue(front, back, pos)}} : TRUE

\* A guard that retries on a failed marker read only.
IsUnexpectedEofMarkerOnly(d) ==
    /\ d.kind = "InvalidMarkerRead"
    /\ d.io = "UnexpectedEof"

\* A guard that retries on every decode error.
IsUnexpectedEofAnyError(d) == d.kind # "Ok"

\* The guard of the second match arm of recv.
IsUnexpectedEof(d) ==
    /\ d.kind \in {"InvalidMarkerRead", "InvalidDataRead"}
    /\ d.io = "UnexpectedEof"

\* A drain that empties the buffer.
DrainAll(b, n) == <<>>

\* VecDeque::drain(..n)
Drain(b, n) == SubSeq(b, n + 1, Len(b))

\* ReadError and the Ok value of recv.
OkRes(v) == [kind |-> "Ok", val |-> v, cause |-> "none"]
IOError(c) == [kind |-> "IOError", val |-> NoVal, cause |-> c]
RmpError(c) == [kind |-> "RmpError", val |-> NoVal, cause |-> c]

\* An extend that appends nothing.
ExtendNothing(b, bytes) == b

\* An extend that replaces the buffer by the chunk.
ExtendReplace(b, bytes) == bytes

\* VecDeque::extend(bytes)
Extend(b, bytes) == b \o bytes

\* A count that is one short.
ConsumeLenShort(bytes) == Len(bytes) - 1

\* The count handed to consume_unpin.
ConsumeLen(bytes) == Len(bytes)

\* BufReader::fill_buf: the bytes it holds, or, when it holds none, the
\* next non-empty chunk read from the source.
FillBuf(held, source) ==
    IF held # <<>>
    THEN {held}
    ELSE {SubSeq(source, 1, k) : k \in 1..Len(source)}

\* BufReader::consume: drop amt bytes from the head of the held bytes.
Consume(held, amt) == SubSeq(held, Min(amt, Len(held)) + 1, Len(held))

\* End of stream reported as a decode error.
EofResultAsDecode == RmpError("InvalidMarkerRead")

\* The error fill_buffer builds for an empty chunk.
EofResult == IOError("UnexpectedEof")

\* An I/O failure reported with its cause replaced.
ErrResultAsEof(c) == IOError("UnexpectedEof")

\* The error fill_buffer builds for a failed fill_buf.
ErrResult(c) == IOError(c)

\* The error recv builds for a decode failure that is not UnexpectedEof.
FatalResult(d) == RmpError(d.kind)

\* -------------------------------------------------------------- inputs
MsgSet == {IntVal(1), IntVal(192), ArrVal(<<IntVal(1), IntVal(2)>>)}
TailSet == {<<>>, <<ReservedMarker>>, <<FixArray0 + 2, ReservedMarker>>,
            <<FixArray0 + 2, 1>>, <<U8Marker>>}
InvalidTails == {<<ReservedMarker>>, <<FixArray0 + 2, ReservedMarker>>}
IoCauses == {"ConnectionReset", "BrokenPipe"}

\* ---------------------------------------------------------------- state
VARIABLES
    msgs,        \* the messages the peer encoded, in order
    stream,      \* the whole byte stream the peer produces
    src,         \* bytes of the stream the source has not delivered yet
    rbuf,        \* BufReader's internal buffer: delivered, not acknowledged
    buf,         \* RpcReader::buf, the accumulation buffer
    pc,          \* "idle" | "attempt" | "fetch": position of the recv call
    results,     \* what the recv calls returned, in order
    acked,       \* bytes acknowledged to the source with consume
    drained,     \* the byte runs removed from buf by drain, in order
    callBuf,     \* buf when the current (or last) recv call started
    callChunks,  \* chunks appended during the current (or last) recv call
    fetches,     \* fill_buffer invocations of the current (or last) call
    lastFetch,   \* outcome of the most recent fill_buffer invocation
    calls, errs, cancels,
    cursor,      \* the Cursor of the most recent decode attempt
    rd           \* a deque as two slices and the reads made through a cursor

vars == <<msgs, stream, src, rbuf, buf, pc, results, acked, drained,
          callBuf, callChunks, fetches, lastFetch, calls, errs, cancels,
          cursor, rd>>

\* A deque as its two slices, the last read through the cursor (requested
\* length, count returned, bytes copied) and all the bytes copied so far.
Reads(front, back) ==
    [front |-> front, back |-> back, req |-> 0, n |-> 0, bytes |-> <<>>,
     copied |-> <<>>]

FetchOutcome(k, c) == [kind |-> k, cause |-> c]

\* The state of a Cursor: its position and the last operation on it.
CursorAt(pos, op) == [pos |-> pos, op |-> op]

\* A cursor that keeps the position of the previous attempt.
CursorNewStale(deque) == CursorAt(cursor.pos, "new")

\* Cursor::new: a cursor over the deque at position 0.
CursorNew(deque) == CursorAt(0, "new")

\* RpcReader::new over a source that will produce the encodings of msgs
\* followed by a tail.
Init ==
    /\ msgs \in SeqsUpTo(MsgSet, MaxMsgs)
    /\ \E tl \in TailSet : stream = EncodeAll(msgs) \o tl
    /\ src = stream
    /\ rbuf = <<>>
    /\ buf = <<>>
    /\ pc = "idle"
    /\ results = <<>>
    /\ acked = <<>>
    /\ drained = <<>>
    /\ callBuf = <<>>
    /\ callChunks = <<>>
    /\ fetches = 0
    /\ lastFetch = FetchOutcome("none", "none")
    /\ calls = 0
    /\ errs = 0
    /\ cancels = 0
    /\ cursor = CursorAt(0, "none")
    /\ rd = Reads(<<>>, <<>>)

\* The caller invokes recv; at most one call is in flight.
CallRecv ==
    /\ pc = "idle"
    /\ calls < MaxCalls
    /\ pc' = "attempt"
    /\ calls' = calls + 1
    /\ callBuf' = buf
    /\ callChunks' = <<>>
    /\ fetches' = 0
    /\ UNCHANGED <<msgs, stream, src, rbuf, buf, results, acked, drained,
                   lastFetch, errs, cancels, cursor, rd>>

\* One iteration of the loop of recv up to its return or its await: a fresh
\* cursor over buf, one decode (d, over the front and back slices as_slices
\* gives for some split of the deque), then the match on the result.
RecvAttempt ==
    /\ pc = "attempt"
    /\ \E split \in 0..Len(buf) :
        \E d \in {DecodeValue(SubSeq(buf, 1, split),
                               SubSeq(buf, split + 1, Len(buf)),
                               CursorNew(buf).pos)} :
           /\ cursor' = CursorAt(d.pos, d.kind)
           /\ IF d.kind = "Ok"
              THEN /\ buf' = Drain(buf, d.pos)
                   /\ drained' = Append(drained, SubSeq(buf, 1, d.pos))
                   /\ results' = Append(results, OkRes(d.val))
                   /\ pc' = "idle"
                   /\ UNCHANGED <<fetches, lastFetch>>
              ELSE IF IsUnexpectedEof(d)
              THEN /\ pc' = "fetch"
                   /\ fetches' = fetches + 1
                   /\ lastFetch' = FetchOutcome("pending", "none")
                   /\ UNCHANGED <<buf, drained, results>>
              ELSE /\ results' = Append(results, FatalResult(d))
                   /\ pc' = "idle"
                   /\ UNCHANGED <<buf, drained, fetches, lastFetch>>
    /\ UNCHANGED <<msgs, stream, src, rbuf, acked, callBuf, callChunks,
                   calls, errs, cancels, rd>>

\* fill_buffer, Ok(bytes) arm: the bytes fill_buf handed out are appended to
\* buf and acknowledged with consume.
FillChunk ==
    /\ pc = "fetch"
    /\ \E bytes \in FillBuf(rbuf, src) :
        LET len == ConsumeLen(bytes)
        IN /\ src' = IF rbuf = <<>>
                   THEN SubSeq(src, Len(bytes) + 1, Len(src))
                   ELSE src
           /\ buf' = Extend(buf, bytes)
           /\ acked' = acked \o SubSeq(bytes, 1, Min(len, Len(bytes)))
           /\ rbuf' = Consume(bytes, len)
           /\ callChunks' = Append(callChunks, bytes)
    /\ lastFetch' = FetchOutcome("chunk", "none")
    /\ pc' = "attempt"
    /\ UNCHANGED <<msgs, stream, results, drained, callBuf, fetches,
                   calls, errs, cancels, cursor, rd>>

\* fill_buffer, Ok([]) arm: the source is at end of stream.
FillEof ==
    /\ pc = "fetch"
    /\ src = <<>>
    /\ rbuf = <<>>
    /\ results' = Append(results, EofResult)
    /\ lastFetch' = FetchOutcome("eof", "none")
    /\ pc' = "idle"
    /\ UNCHANGED <<msgs, stream, src, rbuf, buf, acked, drained, callBuf,
                   callChunks, fetches, calls, errs, cancels, cursor, rd>>

\* fill_buffer, Err(err) arm: the source fails with an I/O error.
FillErr ==
    /\ pc = "fetch"
    /\ rbuf = <<>>
    /\ errs < MaxErrs
    /\ \E c \in IoCauses :
        /\ results' = Append(results, ErrResult(c))
        /\ lastFetch' = FetchOutcome("err", c)
    /\ errs' = errs + 1
    /\ pc' = "idle"
    /\ UNCHANGED <<msgs, stream, src, rbuf, buf, acked, drained, callBuf,
                   callChunks, fetches, calls, cancels, cursor, rd>>

\* The caller drops the recv future while it is pending in fill_buf().await.
Cancel ==
    /\ pc = "fetch"
    /\ cancels < MaxCancels
    /\ cancels' = cancels + 1
    /\ lastFetch' = FetchOutcome("cancelled", "none")
    /\ pc' = "idle"
    /\ UNCHANGED <<msgs, stream, src, rbuf, buf, results, acked, drained,
                   callBuf, callChunks, fetches, calls, errs, cursor, rd>>

\* RpcReader::into_inner: the reader is consumed and the source handed
\* back; what BufReader still held is dropped with it.
IntoInner ==
    /\ pc = "idle"
    /\ pc' = "closed"
    /\ rbuf' = <<>>
    /\ UNCHANGED <<msgs, stream, src, buf, results, acked, drained, callBuf,
                   callChunks, fetches, lastFetch, calls, errs, cancels,
                   cursor, rd>>

Next ==
    \/ CallRecv
    \/ RecvAttempt
    \/ FillChunk
    \/ FillEof
    \/ FillErr
    \/ Cancel
    \/ IntoInner

Spec == Init /\ [][Next]_vars

\* The source answers a pending fetch and the synchronous part of recv runs.
FairSpec ==
    /\ Spec
    /\ WF_vars(RecvAttempt)
    /\ WF_vars(FillChunk \/ FillEof \/ FillErr)

\* ------------------------------------------- reads through a Cursor
\* Bytes of the deques read through a cursor.
ByteSet == {1, FixArray0 + 2, U8Marker}

\* A deque in any two-slice layout, and a new cursor over it.
InitCursor ==
    /\ \E f \in SeqsUpTo(ByteSet, MaxSlice), b \in SeqsUpTo(ByteSet, MaxSlice) :
          /\ rd = Reads(f, b)
          /\ cursor = CursorNew(f \o b)
    /\ msgs = <<>>
    /\ stream = <<>>
    /\ src = <<>>
    /\ rbuf = <<>>
    /\ buf = <<>>
    /\ pc = "idle"
    /\ results = <<>>
    /\ acked = <<>>
    /\ drained = <<>>
    /\ callBuf = <<>>
    /\ callChunks = <<>>
    /\ fetches = 0
    /\ lastFetch = FetchOutcome("none", "none")
    /\ calls = 0
    /\ errs = 0
    /\ cancels = 0

\* Cursor::read with a destination of n bytes.
Read ==
    /\ cursor.op \in {"new", "read"}
    /\ \E n \in 0..MaxRead :
        LET r == CursorRead(rd.front, rd.back, cursor.pos, n)
        IN /\ cursor' = CursorAt(r.pos, "read")
           /\ rd' = [rd EXCEPT !.req = n, !.n = r.n, !.bytes = r.bytes,
                               !.copied = @ \o r.bytes]
    /\ UNCHANGED <<msgs, stream, src, rbuf, buf, pc, results, acked, drained,
                   callBuf, callChunks, fetches, lastFetch, calls, errs,
                   cancels>>

\* One decode attempt of recv through a new cursor.
DecodeAttempt ==
    /\ cursor.op = "new"
    /\ LET d == DecodeValue(rd.front, rd.back, cursor.pos)
       IN cursor' = CursorAt(d.pos, d.kind)
    /\ UNCHANGED <<msgs, stream, src, rbuf, buf, pc, results, acked, drained,
                   callBuf, callChunks, fetches, lastFetch, calls, errs,
                   cancels, rd>>

\* The cursor is discarded and a new one made for the next attempt.
NewCursor ==
    /\ cursor.op # "new"
    /\ cursor' = CursorNew(rd.front \o rd.back)
    /\ rd' = Reads(rd.front, rd.back)
    /\ UNCHANGED <<msgs, stream, src, rbuf, buf, pc, results, acked, drained,
                   callBuf, callChunks, fetches, lastFetch, calls, errs,
                   cancels>>

NextCursor ==
    \/ Read
    \/ DecodeAttempt
    \/ NewCursor

CursorSpec == InitCursor /\ [][NextCursor]_vars

\* ------------------------------------------------- reference notions
IsProperPrefix(p, s) == IsPrefix(p, s) /\ p # s

Last(s) == s[Len(s)]

\* Number of recv calls that returned a message so far.
NumOk == Cardinality({i \in DOMAIN results : results[i].kind = "Ok"})

\* What follows the encoded messages on the stream.
StreamTail == SubSeq(stream, Len(EncodeAll(msgs)) + 1, Len(stream))

\* The bytes the peer wrote for the next item recv has to deliver: the
\* encoding of the next message, or the tail once all were returned.
Expected ==
    IF NumOk + 1 <= Len(msgs) THEN Encode(msgs[NumOk + 1]) ELSE StreamTail

\* b is a started or empty, not yet complete, item.
Incomplete(b) ==
    /\ IsPrefix(b, Expected)
    /\ \/ b # Expected
       \/ NumOk + 1 > Len(msgs) /\ StreamTail \notin InvalidTails

\* The buffer of the current call after its first j chunks.
CallBufAfter(j) == callBuf \o Flatten(SubSeq(callChunks, 1, j))

\* ------------------------------------------------------------- claims

\* C1: chunking invariance.  When the source delivers the stream in any
\* partition into non-empty chunks, one per fetch, without failing and no
\* call is abandoned, the i-th recv call returns the i-th encoded message,
\* for every i up to the number of messages.
ChunkingInvariance ==
    (errs = 0 /\ cancels = 0) =>
        \A i \in DOMAIN results :
            i <= Len(msgs) => results[i].kind = "Ok" /\ results[i].val = msgs[i]

\* Two messages returned by two calls, the second a three-byte array
\* delivered in one-byte chunks.
ChunkingInvarianceWitness ==
    /\ errs = 0 /\ cancels = 0
    /\ Len(msgs) = 2 /\ Len(results) = 2
    /\ msgs[2] = ArrVal(<<IntVal(1), IntVal(2)>>)
    /\ results[2].kind = "Ok"
    /\ callBuf = <<>>
    /\ callChunks = <<<<FixArray0 + 2>>, <<1>>, <<2>>>>

\* C2: byte conservation.  The acknowledged bytes are, in order, the byte
\* runs drained for the returned messages followed by the buffer; each
\* drained run is the encoding of the message returned with it; the
\* acknowledged bytes followed by the undelivered ones are the stream.
ByteConservation ==
    /\ acked = Flatten(drained) \o buf
    /\ acked \o rbuf \o src = stream
    /\ Len(drained) = NumOk
    /\ \A i \in DOMAIN drained : i <= Len(msgs) /\ drained[i] = Encode(msgs[i])
    /\ \A i \in DOMAIN results :
        results[i].kind = "Ok" =>
            \E j \in DOMAIN drained : drained[j] = Encode(results[i].val)

\* A message was returned, the buffer holds bytes of the next one and the
\* source has more to deliver.
ByteConservationWitness ==
    /\ Len(drained) >= 1
    /\ buf # <<>>
    /\ src # <<>>
    /\ Len(acked) > Len(drained[1]) + 1

\* C3: no cross-message leakage.  A decode attempt on a buffer that starts
\* with the complete encoding of the next message returns that message
\* only and leaves in the buffer exactly the bytes that followed it, also
\* when these are the complete encoding of a second message.
NoLeakStep ==
    LET k == NumOk + 1
    IN (pc = "attempt" /\ k <= Len(msgs) /\ IsPrefix(Encode(msgs[k]), buf)) =>
          /\ results' = Append(results, OkRes(msgs[k]))
          /\ buf = Encode(msgs[k]) \o buf'
          /\ drained' = Append(drained, Encode(msgs[k]))
          /\ pc' = "idle"
NoCrossMessageLeakage == [][NoLeakStep]_vars

\* One fetch delivered two messages; the first recv returned the first and
\* the buffer holds the encoding of the second.
NoCrossMessageLeakageWitness ==
    /\ Len(msgs) = 2 /\ StreamTail = <<>>
    /\ callChunks = <<stream>>
    /\ Len(results) = 1
    /\ results[1] = OkRes(msgs[1])
    /\ fetches = 1
    /\ buf = Encode(msgs[2])

\* C4: partial-message retention.  A decode attempt on a non-empty proper
\* prefix of the next message returns nothing and keeps the buffer; while
\* the call waits, a chunk is only appended; once the buffer holds the
\* whole encoding, the same call returns the message.
PartialRetentionStep ==
    LET k == NumOk + 1
    IN /\ (pc = "attempt" /\ k <= Len(msgs) /\ buf # <<>>
            /\ IsProperPrefix(buf, Encode(msgs[k]))) =>
              pc' = "fetch" /\ buf' = buf /\ results' = results
       /\ (pc = "fetch" /\ lastFetch'.kind = "chunk") =>
              /\ IsProperPrefix(buf, buf')
              /\ results' = results /\ calls' = calls /\ pc' = "attempt"
       /\ (pc = "attempt" /\ k <= Len(msgs) /\ fetches > 0
            /\ IsPrefix(Encode(msgs[k]), buf)) =>
              results' = Append(results, OkRes(msgs[k])) /\ calls' = calls
PartialRetention == [][PartialRetentionStep]_vars

\* The first call started on an empty buffer, saw one and then two bytes
\* of a three-byte message, and returned it after the third fetch.
PartialRetentionWitness ==
    /\ calls = 1 /\ cancels = 0
    /\ callBuf = <<>>
    /\ Len(callChunks) = 3
    /\ Len(results) = 1
    /\ results[1] = OkRes(ArrVal(<<IntVal(1), IntVal(2)>>))
    /\ fetches = 3

\* C5: incomplete data is never surfaced.  recv returns a message, an
\* IOError or an RmpError; an RmpError is never one of the ran-out-of-bytes
\* errors and is returned only with structurally invalid bytes at the head
\* of the buffer.
IncompleteNeverSurfaced ==
    \A i \in DOMAIN results :
        /\ results[i].kind \in {"Ok", "IOError", "RmpError"}
        /\ results[i].kind = "RmpError" =>
              /\ results[i].cause \notin {"InvalidMarkerRead", "InvalidDataRead"}
              /\ StreamTail \in InvalidTails
              /\ IsPrefix(StreamTail, buf)

\* A call ran out of bytes in the middle of the data of a value, fetched
\* again and returned the value.
IncompleteNeverSurfacedWitness ==
    /\ calls = 1
    /\ callChunks = <<<<U8Marker>>, <<192>>>>
    /\ Len(results) = 1
    /\ results[1] = OkRes(IntVal(192))
    /\ fetches = 2

\* C6: a decode error other than incomplete data is returned at once.  A
\* decode attempt on a buffer that holds structurally invalid bytes where
\* the next item starts returns an RmpError in that step, invokes no
\* fetch, and leaves the buffer as it was.
DecodeErrorStep ==
    (pc = "attempt" /\ NumOk = Len(msgs) /\ StreamTail \in InvalidTails
     /\ IsPrefix(StreamTail, buf)) =>
        /\ results' = Append(results, RmpError("TypeMismatch"))
        /\ pc' = "idle"
        /\ buf' = buf
        /\ fetches' = fetches /\ lastFetch' = lastFetch
        /\ src' = src /\ rbuf' = rbuf /\ acked' = acked
        /\ callChunks' = callChunks
DecodeErrorImmediate == [][DecodeErrorStep]_vars

\* A call returned an RmpError for an array whose first element is the
\* reserved marker; the buffer holds exactly the invalid bytes.
DecodeErrorImmediateWitness ==
    /\ StreamTail = <<FixArray0 + 2, ReservedMarker>>
    /\ results # <<>>
    /\ Last(results).kind = "RmpError"
    /\ buf = StreamTail
    /\ pc = "idle"

\* C7: end of stream is fatal.  When a fetch receives an empty chunk, recv
\* returns an IOError with kind UnexpectedEof in that step: not an
\* RmpError, not a message, and the call does not end silently.
EofStep ==
    (pc = "fetch" /\ lastFetch'.kind = "eof") =>
        /\ results' = Append(results, IOError("UnexpectedEof"))
        /\ pc' = "idle"
        /\ buf' = buf
EndOfStreamFatal == [][EofStep]_vars

\* All messages were returned and the next call met the end of the stream.
EndOfStreamFatalWitness ==
    /\ lastFetch.kind = "eof"
    /\ Len(msgs) = 2 /\ NumOk = 2
    /\ Len(results) = 3
    /\ results[3] = IOError("UnexpectedEof")
    /\ fetches = 1

\* C8: a transport failure is propagated at once and unchanged.  When
\* fill_buf fails, recv returns an IOError with that same cause in that
\* step, ending the call: no further attempt and no further fetch.
TransportStep ==
    (pc = "fetch" /\ lastFetch'.kind = "err") =>
        /\ lastFetch'.cause \in IoCauses
        /\ results' = Append(results, IOError(lastFetch'.cause))
        /\ pc' = "idle"
        /\ fetches' = fetches
        /\ buf' = buf /\ src' = src /\ acked' = acked
TransportPropagated == [][TransportStep]_vars

\* A call that had fetched one chunk failed on its second fetch with
\* BrokenPipe.
TransportPropagatedWitness ==
    /\ lastFetch = FetchOutcome("err", "BrokenPipe")
    /\ results # <<>>
    /\ Last(results) = IOError("BrokenPipe")
    /\ fetches = 2
    /\ Len(callChunks) = 1
    /\ pc = "idle"

\* C9: cancellation safety.  A call is abandoned only while it waits for a
\* chunk, and the abandonment changes neither the buffer nor the source
\* nor what was acknowledged; after it the buffer holds what the call
\* started with and the chunks it fetched, every delivered chunk is both
\* appended and acknowledged, and the calls that return still return the
\* encoded messages in order.
CancelStep ==
    cancels' # cancels =>
        /\ pc = "fetch" /\ lastFetch.kind = "pending"
        /\ pc' = "idle"
        /\ buf' = buf /\ acked' = acked /\ rbuf' = rbuf /\ src' = src
        /\ results' = results /\ drained' = drained
AfterCancel ==
    cancels > 0 =>
        /\ lastFetch.kind = "cancelled" => buf = callBuf \o Flatten(callChunks)
        /\ rbuf = <<>>
        /\ acked = Flatten(drained) \o buf
        /\ acked \o src = stream
        /\ errs = 0 =>
              \A i \in DOMAIN results :
                  i <= Len(msgs) =>
                      results[i].kind = "Ok" /\ results[i].val = msgs[i]
CancellationSafety == [][CancelStep]_vars /\ []AfterCancel

\* The first call was abandoned with a non-empty proper prefix of the first
\* message in the buffer; the second call started from these bytes and
\* returned the message.
CancellationSafetyWitness ==
    /\ calls = 2 /\ cancels = 1 /\ errs = 0
    /\ lastFetch.kind # "cancelled"
    /\ callBuf # <<>>
    /\ Len(msgs) >= 1
    /\ IsProperPrefix(callBuf, Encode(msgs[1]))
    /\ Len(results) = 1
    /\ results[1].kind = "Ok"
    /\ fetches >= 1

\* C10: minimal fetching.  A call waits for a chunk only when the buffer
\* holds no complete item; the fetches of a call are one per chunk it
\* appended, each of them invoked on a buffer that was still incomplete;
\* the array [1, 2] delivered as its first byte and then the rest is
\* returned after exactly two fetches.
MinimalFetching ==
    /\ pc = "fetch" => Incomplete(buf)
    /\ pc \in {"attempt", "fetch"} =>
          /\ fetches = Len(callChunks) + (IF pc = "fetch" THEN 1 ELSE 0)
          /\ \A j \in 0..(Len(callChunks) - 1) : Incomplete(CallBufAfter(j))
    /\ (pc = "idle" /\ cancels = 0 /\ results # <<>> /\ Last(results).kind = "Ok") =>
          /\ fetches = Len(callChunks)
          /\ \A j \in 0..(Len(callChunks) - 1) :
                IsProperPrefix(CallBufAfter(j), Encode(Last(results).val))
          /\ CallBufAfter(Len(callChunks)) = Encode(Last(results).val) \o buf
    /\ (calls = 1 /\ pc = "idle" /\ callChunks = <<<<FixArray0 + 2>>, <<1, 2>>>>) =>
          results = <<OkRes(ArrVal(<<IntVal(1), IntVal(2)>>))>> /\ fetches = 2

\* The array [1, 2] arrived as its first byte and then the rest; the call
\* made two fetches.
MinimalFetchingWitness ==
    /\ calls = 1 /\ pc = "idle"
    /\ callBuf = <<>>
    /\ callChunks = <<<<FixArray0 + 2>>, <<1, 2>>>>
    /\ results = <<OkRes(ArrVal(<<IntVal(1), IntVal(2)>>))>>
    /\ fetches = 2

\* --------------------------------------------- claims on the Cursor
\* The deque of the cursor as one contiguous sequence.
Whole == rd.front \o rd.back

\* C11: split-buffer read equivalence.  For every two-slice layout of the
\* deque, every position reached by reads and every requested length, the
\* bytes a read copies are the bytes at the same offsets of the deque seen
\* as one sequence; the bytes copied so far are the deque up to the
\* position, and when a read of a non-empty destination returns 0 they are
\* the whole deque and their count is its length.
ReadEquivalence ==
    cursor.op \in {"new", "read"} =>
        /\ Len(rd.bytes) = rd.n
        /\ rd.bytes = SubSeq(Whole, cursor.pos - rd.n + 1, cursor.pos)
        /\ rd.copied = SubSeq(Whole, 1, cursor.pos)
        /\ Len(rd.copied) = cursor.pos
        /\ (cursor.op = "read" /\ rd.req > 0 /\ rd.n = 0) =>
              rd.copied = Whole /\ cursor.pos = Len(Whole)

\* A read of three bytes from position 1 that crossed from a two-byte front
\* slice into a two-byte back slice.
ReadEquivalenceWitness ==
    /\ cursor.op = "read"
    /\ Len(rd.front) = 2 /\ Len(rd.back) = 2
    /\ rd.req = 3 /\ rd.n = 3
    /\ cursor.pos = 4
    /\ rd.bytes = SubSeq(Whole, 2, 4)

\* C14: cursor position bound.  Within one attempt the position never
\* decreases and never exceeds the length of the deque; a read of up to N
\* bytes returns min(N, length - position), advances the position by that
\* count and leaves the deque unchanged; at the end of the data it returns
\* 0 with the position unchanged; so the position after a successful
\* decode, which recv drains, is at most the length.
CursorStep ==
    /\ cursor'.op # "new" => cursor'.pos >= cursor.pos
    /\ cursor'.op = "read" =>
          /\ rd'.n = Min(rd'.req, Len(Whole) - cursor.pos)
          /\ cursor'.pos = cursor.pos + rd'.n
          /\ rd'.front = rd.front /\ rd'.back = rd.back
          /\ cursor.pos = Len(Whole) => rd'.n = 0 /\ cursor'.pos = cursor.pos
    /\ cursor'.op = "Ok" => cursor'.pos <= Len(Whole) /\ rd' = rd
CursorPositionBound ==
    [][CursorStep]_vars /\ [](cursor.pos >= 0 /\ cursor.pos <= Len(Whole))

\* A read of a non-empty destination at the end of a deque of four bytes
\* in two slices returned 0.
CursorPositionBoundWitness ==
    /\ cursor.op = "read"
    /\ Len(rd.front) = 2 /\ Len(rd.back) = 2
    /\ cursor.pos = 4
    /\ rd.req = 2 /\ rd.n = 0
    /\ rd.copied = Whole

\* ------------------------------------------- claims on the reader, II
\* C12 as stated: once a recv call has returned an IOError, no later recv
\* call on the same reader returns a message.
TransportTerminal ==
    \A i \in DOMAIN results : \A j \in DOMAIN results :
        (i < j /\ results[i].kind = "IOError") => results[j].kind # "Ok"

\* C12, amended: the reader keeps no failure state.  When the last call
\* returned an IOError the buffer still holds an incomplete item, so a
\* later call returns a message only after the source delivered further
\* bytes; once a call has returned the end-of-stream IOError and the source
\* stays at end of stream, no later call returns a message.
TransportErrorKeepsState ==
    /\ \A i \in DOMAIN results : \A j \in DOMAIN results :
          (i < j /\ results[i] = IOError("UnexpectedEof")) =>
              results[j].kind # "Ok"
    /\ (results # <<>> /\ Last(results).kind = "IOError" /\ pc = "idle") =>
          Incomplete(buf)
    /\ (results # <<>> /\ Last(results) = IOError("UnexpectedEof")) =>
          src = <<>>

\* Two calls in a row met the end of the stream with a truncated message
\* in the buffer.
TransportErrorKeepsStateWitness ==
    /\ Len(results) >= 2
    /\ results[Len(results) - 1] = IOError("UnexpectedEof")
    /\ Last(results) = IOError("UnexpectedEof")
    /\ buf = <<FixArray0 + 2, 1>>
    /\ pc = "idle"

\* C13 as stated: the buffer is empty when the reader is constructed and
\* every invocation of fill_buffer leaves it strictly longer.
FetchGrowsStep ==
    (pc = "fetch" /\ lastFetch'.kind \in {"chunk", "eof", "err"}) =>
        Len(buf') > Len(buf)
BufferGrowsOnEveryFetch ==
    [](calls = 0 => buf = <<>>) /\ [][FetchGrowsStep]_vars

\* C13, amended: the buffer is empty when the reader is constructed; an
\* invocation of fill_buffer that receives a non-empty chunk leaves the
\* buffer longer by the length of the chunk, its old contents first; one
\* that receives an empty chunk or an I/O error leaves it unchanged.
ChunkGrowsStep ==
    /\ (pc = "fetch" /\ lastFetch'.kind = "chunk") =>
          /\ callChunks' # <<>>
          /\ Len(buf') = Len(buf) + Len(Last(callChunks'))
          /\ Len(buf') > Len(buf)
          /\ IsPrefix(buf, buf')
    /\ (pc = "fetch" /\ lastFetch'.kind \in {"eof", "err"}) => buf' = buf
BufferGrowsOnChunk ==
    [](calls = 0 => buf = <<>>) /\ [][ChunkGrowsStep]_vars

\* The second chunk of a call was appended behind bytes already buffered.
BufferGrowsOnChunkWitness ==
    /\ lastFetch.kind = "chunk"
    /\ pc = "attempt"
    /\ Len(callChunks) = 2
    /\ callBuf # <<>>
    /\ buf = callBuf \o Flatten(callChunks)

\* C15: fresh attempt state.  Every decode attempt, the first of a call and
\* each one after a fetch, reads the buffer from position 0, so its outcome
\* and the final position of its cursor depend on the buffer alone: an
\* incomplete item is read to its end and leads to a fetch, a complete
\* message is returned with the position at the end of its encoding, and
\* invalid bytes give an RmpError at the end of the invalid item.
BufferCase ==
    LET k == NumOk + 1
    IN IF Incomplete(buf) THEN "incomplete"
       ELSE IF k <= Len(msgs) /\ IsPrefix(Encode(msgs[k]), buf) THEN "complete"
       ELSE IF k > Len(msgs) /\ StreamTail \in InvalidTails
               /\ IsPrefix(StreamTail, buf) THEN "invalid"
       ELSE "other"
FreshAttemptStep ==
    pc = "attempt" =>
        /\ BufferCase = "incomplete" =>
              /\ pc' = "fetch"
              /\ cursor'.pos = Len(buf)
              /\ cursor'.op \in {"InvalidMarkerRead", "InvalidDataRead"}
        /\ BufferCase = "complete" =>
              /\ cursor' = CursorAt(Len(Encode(msgs[NumOk + 1])), "Ok")
              /\ results' = Append(results, OkRes(msgs[NumOk + 1]))
        /\ BufferCase = "invalid" =>
              /\ cursor' = CursorAt(Len(StreamTail), "TypeMismatch")
              /\ results' = Append(results, RmpError("TypeMismatch"))
FreshAttemptState ==
    [][FreshAttemptStep]_vars /\ [](pc = "attempt" => BufferCase # "other")

\* A call made three attempts, after zero, one and two fetches; the last
\* read the three bytes of [1, 2] from position 0.
FreshAttemptStateWitness ==
    /\ calls = 1 /\ pc = "idle"
    /\ callBuf = <<>>
    /\ callChunks = <<<<FixArray0 + 2>>, <<1, 2>>>>
    /\ cursor = CursorAt(3, "Ok")
    /\ results = <<OkRes(ArrVal(<<IntVal(1), IntVal(2)>>))>>

\* C16: termination of recv.  With a source that answers every pending
\* fetch and synchronous steps that run, every recv call in flight comes to
\* an end; a call ends by returning a message, an RmpError or an IOError
\* (or by being abandoned), and every loop iteration that does not return
\* has appended at least one byte to the buffer.
CallEndStep ==
    /\ (pc \in {"attempt", "fetch"} /\ pc' = "idle") =>
          \/ /\ Len(results') = Len(results) + 1
             /\ Last(results').kind \in {"Ok", "RmpError", "IOError"}
          \/ cancels' = cancels + 1 /\ results' = results
    /\ (pc = "fetch" /\ pc' = "attempt") => Len(buf') > Len(buf)
RecvTerminates ==
    /\ (pc \in {"attempt", "fetch"}) ~> (pc = "idle")
    /\ [][CallEndStep]_vars

\* A call went three times round the loop and ended when the source was at
\* end of stream.
RecvTerminatesWitness ==
    /\ calls = 1 /\ pc = "idle" /\ cancels = 0
    /\ fetches = 3
    /\ Len(callChunks) = 2
    /\ results = <<IOError("UnexpectedEof")>>

\* C17: truncated stream.  While the buffer holds only a proper prefix of
\* an item (the empty buffer included), an attempt asks for a fetch and
\* returns nothing; when that fetch meets end of stream or an I/O failure,
\* recv returns an IOError, never an RmpError, and the buffer holds exactly
\* the bytes it held before the failing fetch.
TruncatedStep ==
    /\ (pc = "attempt" /\ Incomplete(buf)) =>
          \/ pc' = "fetch" /\ results' = results /\ buf' = buf
          \/ UNCHANGED vars
    /\ (pc = "fetch" /\ lastFetch'.kind \in {"eof", "err"}) =>
          /\ Incomplete(buf)
          /\ Len(results') = Len(results) + 1
          /\ SubSeq(results', 1, Len(results)) = results
          /\ Last(results').kind = "IOError"
          /\ Last(results').cause = IF lastFetch'.kind = "eof"
                                    THEN "UnexpectedEof"
                                    ELSE lastFetch'.cause
          /\ buf' = buf
          /\ pc' = "idle"
TruncatedStream == [][TruncatedStep]_vars

\* The stream ends inside an array: both delivered bytes are still in the
\* buffer when the call returns the end-of-stream error.
TruncatedStreamWitness ==
    /\ msgs = <<>>
    /\ stream = <<FixArray0 + 2, 1>>
    /\ src = <<>>
    /\ buf = <<FixArray0 + 2, 1>>
    /\ pc = "idle"
    /\ lastFetch = FetchOutcome("eof", "none")
    /\ results = <<IOError("UnexpectedEof")>>

\* C18: decode errors are sticky.  Once a recv call has returned an
\* RmpError, the buffer and the source never change again, no fetch is
\* started, and every later call returns that same RmpError from its first
\* attempt.
DecodeFailed == \E i \in 1..Len(results) : results[i].kind = "RmpError"
StickyStep ==
    DecodeFailed =>
        /\ buf' = buf /\ src' = src /\ acked' = acked /\ drained' = drained
        /\ pc' # "fetch"
        /\ fetches' = fetches \/ fetches' = 0
        /\ callChunks' = callChunks \/ callChunks' = <<>>
        /\ \/ results' = results
           \/ results' = Append(results, Last(results))
        /\ pc = "attempt" =>
              \/ pc' = "idle" /\ results' = Append(results, Last(results))
              \/ UNCHANGED vars
DecodeErrorsSticky ==
    /\ [][StickyStep]_vars
    /\ [](DecodeFailed => /\ Last(results).kind = "RmpError"
                          /\ pc \in {"idle", "attempt", "closed"})

\* Three calls on a stream that starts with an invalid array: the first
\* fetched both bytes and failed, the next two failed without a fetch.
DecodeErrorsStickyWitness ==
    /\ stream = <<FixArray0 + 2, ReservedMarker>>
    /\ calls = 3 /\ pc = "idle"
    /\ results = <<RmpError("TypeMismatch"), RmpError("TypeMismatch"),
                   RmpError("TypeMismatch")>>
    /\ buf = stream
    /\ fetches = 0 /\ callChunks = <<>>
    /\ errs = 0

\* C19: the source-side buffer is drained.  In every state between steps
\* (between calls, at an attempt, while a fetch is awaited, after a
\* cancellation, after into_inner) BufReader holds nothing back: the bytes
\* the source has delivered are exactly the acknowledged bytes and exactly
\* the bytes appended to buf, of which the drained ones are the encodings of
\* the returned messages; every fetch acknowledges as many bytes as it
\* appends; so after into_inner the delivered bytes not returned as
\* messages are those still in buf.
Delivered == SubSeq(stream, 1, Len(stream) - Len(src))
Returned == SelectSeq(results, LAMBDA r : r.kind = "Ok")
FetchAckStep ==
    (pc = "fetch" /\ pc' = "attempt") =>
        /\ Len(callChunks') = Len(callChunks) + 1
        /\ buf' = buf \o Last(callChunks')
        /\ acked' = acked \o Last(callChunks')
        /\ Delivered' = Delivered \o Last(callChunks')
SourceBufferDrained ==
    /\ [](/\ rbuf = <<>>
          /\ Len(src) <= Len(stream)
          /\ acked = Delivered
          /\ Flatten(drained) \o buf = Delivered
          /\ Len(drained) = Len(Returned)
          /\ \A i \in 1..Len(drained) :
                i <= Len(Returned) => drained[i] = Encode(Returned[i].val))
    /\ [][FetchAckStep]_vars
    /\ [](pc = "closed" => stream = Flatten(drained) \o buf \o src)

\* The reader was consumed after one message, with the first byte of the
\* next message in buf and the rest of it still with the source.
SourceBufferDrainedWitness ==
    /\ pc = "closed"
    /\ msgs = <<IntVal(1), ArrVal(<<IntVal(1), IntVal(2)>>)>>
    /\ results = <<OkRes(IntVal(1))>>
    /\ buf = <<FixArray0 + 2>>
    /\ src = <<1, 2>>
    /\ cancels = 1

====
